---- MODULE Spec2Model ----
(***************************************************************************)
(* RestaurantLocationML (restaurant_ml_system.py): the loaded artifacts    *)
(* and the five public operations, each called by a synchronous caller     *)
(* (Spec), and the Streamlit dashboard (app.py) as one session of script    *)
(* runs over st.session_state (SpecApp).                                    *)
(*                                                                         *)
(* Units.  Coordinates are cells <<lat, lng>> of a grid whose step stands for  *)
(* 500 m (0.005 degrees); distances are metres; scores, gaps and means are *)
(* integers in units of 1e-4; a value "rounded to 3 decimals" is an        *)
(* integer in units of 1e-3; GTV2024 is in thousands of IDR.               *)
(***************************************************************************)
EXTENDS Integers, Sequences, FiniteSets, TLC

VARIABLES
    reference_data,     \* self.reference_data: the rows of reference_branches.csv
    landmarks,          \* self.landmarks: name -> <<lat, lng>>
    spatial_features,   \* self.spatial_features: ordered feature names
    existing_features,  \* self.existing_features: ordered column names
    spatial_scaler,     \* self.spatial_scaler
    existing_scaler,    \* self.existing_scaler
    spatial_model,      \* self.spatial_model
    existing_model,     \* self.existing_model
    pc,                 \* "idle": the caller may call; "returned": a call has returned;
                        \* "main": a script run of the dashboard is past its load step
    call,               \* the public operation last called, with its arguments
    ret,                \* what that call returned, or the exception it raised
    frame,              \* the locals of that call at its return
    session_state,      \* st.session_state of the dashboard: key -> value
    rendered            \* what the last script run of the dashboard came to

artifacts == <<reference_data, landmarks, spatial_features, existing_features,
               spatial_scaler, existing_scaler, spatial_model, existing_model>>

vars == <<reference_data, landmarks, spatial_features, existing_features,
          spatial_scaler, existing_scaler, spatial_model, existing_model,
          pc, call, ret, frame, session_state, rendered>>

\* The dashboard's variables, which a direct caller of the system leaves alone.
dashboard == <<session_state, rendered>>

(***************************************************************************)
(* Bounds of the model.                                                    *)
(***************************************************************************)
MaxBranches == 2    \* rows of the reference table
MaxLocations == 2   \* length of the list given to compare_locations
MaxTarget == 4      \* largest target_branches
MaxLongTable == 6   \* rows of the longest reference table

(***************************************************************************)
(* Generic helpers.                                                        *)
(***************************************************************************)
Range(s) == {s[i] : i \in 1..Len(s)}

\* The values of a mapping.
Range2(f) == {f[k] : k \in DOMAIN f}

Get(d, k, default) == IF k \in DOMAIN d THEN d[k] ELSE default

RECURSIVE SumSeq(_)
SumSeq(s) == IF s = <<>> THEN 0 ELSE Head(s) + SumSeq(Tail(s))

RECURSIVE Product(_)
Product(s) == IF s = <<>> THEN 1 ELSE Head(s) * Product(Tail(s))

Min2(a, b) == IF a <= b THEN a ELSE b

\* Sequences over S of length at most n.
SeqsUpTo(S, n) == UNION {[1..k -> S] : k \in 0..n}

\* num / den rounded to the nearest integer, ties to the even one (den > 0).
RoundDiv(num, den) ==
    LET q == num \div den
        r == num % den
    IN  IF 2 * r < den THEN q
        ELSE IF 2 * r > den THEN q + 1
        ELSE IF q % 2 = 0 THEN q ELSE q + 1

\* round(v, 3) of a value in units of 1e-4: the result is in units of 1e-3.
Round3(v) == RoundDiv(v, 10)

\* round(km, 2) of a distance in metres: the result is in units of 10 m.
Round2Km(m) == RoundDiv(m, 10)

RECURSIVE SqrtSearch(_, _, _)
SqrtSearch(n, lo, hi) ==
    IF lo >= hi THEN lo
    ELSE LET mid == (lo + hi + 1) \div 2
         IN  IF mid * mid <= n THEN SqrtSearch(n, mid, hi)
             ELSE SqrtSearch(n, lo, mid - 1)

ISqrt(n) == SqrtSearch(n, 0, 20000)

\* geodesic(p, q).kilometers, in metres, on the 500 m grid.
Geodesic(p, q) ==
    LET dx == p[1] - q[1]
        dy == p[2] - q[2]
    IN  ISqrt(250000 * (dx * dx + dy * dy))

\* The strings of the model in lexicographic order (the order pandas sorts by).
Alphabetical == <<"Cilandak", "Coffee and Hot Beverages", "Fresh Juices",
                  "Kebayoran Baru", "Salads and Bowls", "Setia Budi">>

LexRank(s) == CHOOSE i \in 1..Len(Alphabetical) : Alphabetical[i] = s

LexLess(a, b) == LexRank(a) < LexRank(b)

\* A set of strings as the sequence sorted lexicographically.
RECURSIVE SortedNames(_)
SortedNames(S) ==
    IF S = {} THEN <<>>
    ELSE LET m == CHOOSE a \in S : \A b \in S : a = b \/ LexLess(a, b)
         IN  <<m>> \o SortedNames(S \ {m})

(***************************************************************************)
(* The artifacts a run may load.                                           *)
(***************************************************************************)
\* Rows of reference_branches.csv (branch_id is set from the row's place).
RowSpace ==
    { [branchName |-> "Branch SB-FJ", districtName |-> "Setia Budi",
       Category |-> "Fresh Juices", latitude |-> 0, longitude |-> 0,
       GTV2024 |-> 2400000, performance_score |-> 3000],
      [branchName |-> "Branch KB-CO", districtName |-> "Kebayoran Baru",
       Category |-> "Coffee and Hot Beverages", latitude |-> 0, longitude |-> 1,
       GTV2024 |-> 900000, performance_score |-> 1500],
      [branchName |-> "Branch KB-FJ", districtName |-> "Kebayoran Baru",
       Category |-> "Fresh Juices", latitude |-> 0, longitude |-> 3,
       GTV2024 |-> 2400000, performance_score |-> 4500],
      [branchName |-> "Branch SB-CO", districtName |-> "Setia Budi",
       Category |-> "Coffee and Hot Beverages", latitude |-> 2, longitude |-> 0,
       GTV2024 |-> 900000, performance_score |-> 5000] }

WithId(row, i) == [branch_id |-> i] @@ row

ReferenceTables ==
    { [i \in 1..Len(t) |-> WithId(t[i], i)] : t \in SeqsUpTo(RowSpace, MaxBranches) }

\* A longer table: branches around the default location, all within 1 km of it
\* (the list is read cyclically beyond its end).
LongRows ==
    << [branchName |-> "Branch L1", districtName |-> "Setia Budi",
        Category |-> "Fresh Juices", latitude |-> 0, longitude |-> 0,
        GTV2024 |-> 2400000, performance_score |-> 3000],
       [branchName |-> "Branch L2", districtName |-> "Kebayoran Baru",
        Category |-> "Coffee and Hot Beverages", latitude |-> 0, longitude |-> 1,
        GTV2024 |-> 900000, performance_score |-> 1500],
       [branchName |-> "Branch L3", districtName |-> "Cilandak",
        Category |-> "Fresh Juices", latitude |-> 1, longitude |-> 0,
        GTV2024 |-> 2400000, performance_score |-> 4500],
       [branchName |-> "Branch L4", districtName |-> "Setia Budi",
        Category |-> "Coffee and Hot Beverages", latitude |-> 0, longitude |-> -1,
        GTV2024 |-> 900000, performance_score |-> 5000],
       [branchName |-> "Branch L5", districtName |-> "Kebayoran Baru",
        Category |-> "Fresh Juices", latitude |-> -1, longitude |-> 0,
        GTV2024 |-> 2400000, performance_score |-> 3000],
       [branchName |-> "Branch L6", districtName |-> "Cilandak",
        Category |-> "Coffee and Hot Beverages", latitude |-> 1, longitude |-> 1,
        GTV2024 |-> 900000, performance_score |-> 2500],
       [branchName |-> "Branch L7", districtName |-> "Setia Budi",
        Category |-> "Fresh Juices", latitude |-> -1, longitude |-> -1,
        GTV2024 |-> 2400000, performance_score |-> 4500],
       [branchName |-> "Branch L8", districtName |-> "Kebayoran Baru",
        Category |-> "Coffee and Hot Beverages", latitude |-> 1, longitude |-> -1,
        GTV2024 |-> 900000, performance_score |-> 1000] >>

LongTables ==
    { [i \in 1..n |-> WithId(LongRows[((i - 1) % Len(LongRows)) + 1], i)] :
        n \in 1..MaxLongTable }

\* metadata['landmarks']: the full table, one lacking kemang, an empty one.
LandmarkTables ==
    { ("kemang" :> <<-5, -2>>) @@ ("sudirman_cbd" :> <<6, 4>>) @@ ("senayan" :> <<3, -3>>),
      ("sudirman_cbd" :> <<6, 4>>) @@ ("senayan" :> <<3, -3>>),
      [n \in {} |-> <<0, 0>>] }

SpatialFeatureLists ==
    { <<"dist_to_kemang", "competitors_1.0km", "competition_intensity_1.0km",
        "districtName", "Category", "foot_traffic">> }

ExistingFeatureLists == { <<"districtName", "Category", "GTV2024">> }

\* A fitted scaler is modelled by its centring: transform subtracts mean_.
SpatialScalers == { [mean |-> <<0, 1, 0, 0, 0, 0>>] }

ExistingScalers == { [mean |-> <<0, 0, 0>>] }

\* A fitted regressor is modelled as intercept_ + coef_ . x.
SpatialModels ==
    { [intercept |-> 1998, coef |-> <<0, -998, 0, 4, 0, 0>>],
      [intercept |-> 1996, coef |-> <<0, 1000, 0, 0, -4, 0>>] }

ExistingModels == { [intercept |-> 3000, coef |-> <<1000, 0, 0>>] }

\* scaler.transform(x) for one sample.
Transform(scaler, x) == [i \in 1..Len(x) |-> x[i] - scaler.mean[i]]

\* model.predict(x) for one sample, in units of 1e-4.
Predict(model, x) ==
    model.intercept + SumSeq([i \in 1..Len(x) |-> model.coef[i] * x[i]])

(***************************************************************************)
(* Helper methods of RestaurantLocationML.                                 *)
(***************************************************************************)
Column(column_name) ==
    [i \in 1..Len(reference_data) |-> reference_data[i][column_name]]

\* Series.unique(): the distinct values in order of first appearance.
RECURSIVE Unique(_)
Unique(col) ==
    IF col = <<>> THEN <<>>
    ELSE LET rest == Unique(SubSeq(col, 1, Len(col) - 1))
             last == col[Len(col)]
         IN  IF last \in Range(rest) THEN rest ELSE Append(rest, last)

IndexOf(s, v) == CHOOSE i \in 1..Len(s) : s[i] = v

\* EncodeCategorical without the membership test: pd.Categorical codes a value
\* outside its categories as -1.
EncodeCategoricalUnchecked(value, column_name) ==
    IF value \in Range(Unique(Column(column_name)))
    THEN IndexOf(Unique(Column(column_name)), value) - 1
    ELSE -1

\* _encode_categorical(value, column_name)
EncodeCategorical(value, column_name) ==
    LET unique_values == Unique(Column(column_name))
    IN  IF value \in Range(unique_values)
        THEN IndexOf(unique_values, value) - 1
        ELSE 0

\* WithinRadius with the comparison turned round.
WithinRadiusInverted(distance, radius) == distance >= radius

\* The test `distance <= radius` of the competition scan.
WithinRadius(distance, radius) == distance <= radius

Radii == << [label |-> "0.5", metres |-> 500],
            [label |-> "1.0", metres |-> 1000],
            [label |-> "2.0", metres |-> 2000] >>

\* The reference rows the scan of one radius counts.
Near(lat, lng, metres) ==
    { i \in 1..Len(reference_data) :
        WithinRadius(Geodesic(<<lat, lng>>,
                              <<reference_data[i].latitude, reference_data[i].longitude>>),
                     metres) }

\* The four features the scan of one radius stores.
RadiusFeatures(label, competitors, same_category, competitor_revenue) ==
    (("competitors_" \o label \o "km") :> competitors)
    @@ (("same_category_competitors_" \o label \o "km") :> same_category)
    @@ (("competitor_revenue_" \o label \o "km") :> competitor_revenue)
    @@ (("competition_intensity_" \o label \o "km")
          :> (competitor_revenue \div (competitors + 1)))

\* Accumulate with the revenue added only for a row of the requested category.
AccumulateSameCategoryRevenue(near, category, label) ==
    RadiusFeatures(label,
                   Cardinality(near),
                   Cardinality({ i \in near : reference_data[i].Category = category }),
                   SumSeq([i \in 1..Len(reference_data) |->
                             IF i \in near /\ reference_data[i].Category = category
                             THEN reference_data[i].GTV2024 ELSE 0]))

\* The accumulators of one radius over the rows within it.
Accumulate(near, category, label) ==
    RadiusFeatures(label,
                   Cardinality(near),
                   Cardinality({ i \in near : reference_data[i].Category = category }),
                   SumSeq([i \in 1..Len(reference_data) |->
                             IF i \in near THEN reference_data[i].GTV2024 ELSE 0]))

\* The competition analysis of one radius.
CompetitionFeatures(lat, lng, category, radius) ==
    Accumulate(Near(lat, lng, radius.metres), category, radius.label)

\* LandmarkDistances with each landmark's pair read as (lng, lat).
LandmarkDistancesSwapped(lat, lng) ==
    [f \in { "dist_to_" \o n : n \in DOMAIN landmarks } |->
       Geodesic(<<lng, lat>>,
                landmarks[CHOOSE n \in DOMAIN landmarks : "dist_to_" \o n = f])]

\* dist_to_<name> for every landmark.
LandmarkDistances(lat, lng) ==
    [f \in { "dist_to_" \o n : n \in DOMAIN landmarks } |->
       Geodesic(<<lat, lng>>,
                landmarks[CHOOSE n \in DOMAIN landmarks : "dist_to_" \o n = f])]

\* min() of a non-empty collection.
Minimum(S) == CHOOSE d \in S : \A e \in S : d <= e

\* The feature mapping once the landmark distances are known.
AssembleFeatures(lat, lng, dists, category) ==
    ("latitude" :> lat) @@ ("longitude" :> lng) @@ dists
    @@ ("dist_to_nearest_landmark" :> Minimum(Range2(dists)))
    @@ CompetitionFeatures(lat, lng, category, Radii[1])
    @@ CompetitionFeatures(lat, lng, category, Radii[2])
    @@ CompetitionFeatures(lat, lng, category, Radii[3])

\* _calculate_spatial_features(lat, lng, category): the feature mapping, or the
\* ValueError of min() of an empty list when there is no landmark.
CalculateSpatialFeatures(lat, lng, category) ==
    IF DOMAIN landmarks = {}
    THEN [raised |-> TRUE, error |-> "ValueError: min() arg is an empty sequence"]
    ELSE [raised |-> FALSE,
          features |-> AssembleFeatures(lat, lng, LandmarkDistances(lat, lng), category)]

\* _categorize_score(score), on the score in units of 1e-4.
CategorizeScore(score) ==
    IF score >= 3000 THEN "High"
    ELSE IF score >= 2000 THEN "Medium"
    ELSE IF score >= 1000 THEN "Low"
    ELSE "Very Low"

\* _generate_recommendation(score)
GenerateRecommendation(score) ==
    IF score >= 3000 THEN "RECOMMENDED: Good potential location"
    ELSE IF score >= 2000 THEN "CONSIDER: Moderate potential, validate with research"
    ELSE IF score >= 1000 THEN "CAUTION: Low potential, consider alternatives"
    ELSE "NOT RECOMMENDED: Very low potential"

\* GenerateSpatialInsights with the competitor rule firing from 5 competitors
\* on (>= 5 for > 5).
GenerateSpatialInsightsFromFive(features) ==
    LET insights ==
            (IF features["dist_to_kemang"] < 2000
             THEN <<"Close to trendy Kemang area">> ELSE <<>>)
            \o (IF features["dist_to_sudirman_cbd"] < 3000
                THEN <<"Near main business district">> ELSE <<>>)
            \o (IF features["competitors_1.0km"] >= 5
                THEN <<"High market activity area">> ELSE <<>>)
            \o (IF features["competition_intensity_1.0km"] > 1000000
                THEN <<"Strong market demand indicated">> ELSE <<>>)
    IN  IF insights # <<>> THEN insights ELSE <<"Standard market conditions">>

\* _generate_spatial_insights(features); the caller has checked the keys it reads.
GenerateSpatialInsights(features) ==
    LET insights ==
            (IF features["dist_to_kemang"] < 2000
             THEN <<"Close to trendy Kemang area">> ELSE <<>>)
            \o (IF features["dist_to_sudirman_cbd"] < 3000
                THEN <<"Near main business district">> ELSE <<>>)
            \o (IF features["competitors_1.0km"] > 5
                THEN <<"High market activity area">> ELSE <<>>)
            \o (IF features["competition_intensity_1.0km"] > 1000000
                THEN <<"Strong market demand indicated">> ELSE <<>>)
    IN  IF insights # <<>> THEN insights ELSE <<"Standard market conditions">>

(***************************************************************************)
(* Ordering helpers: list.sort, DataFrame.nlargest / nsmallest.            *)
(***************************************************************************)
\* DescendingRank with equal keys in reverse order (a sort that is not stable).
DescendingRankUnstable(keys, i) ==
    1 + Cardinality({ j \in 1..Len(keys) : keys[j] > keys[i] })
      + Cardinality({ j \in (i + 1)..Len(keys) : keys[j] = keys[i] })

\* The place (1..n) of element i in a stable sort of keys, largest key first:
\* after every larger key and after the equal keys that come before it.
DescendingRank(keys, i) ==
    1 + Cardinality({ j \in 1..Len(keys) : keys[j] > keys[i] })
      + Cardinality({ j \in 1..(i - 1) : keys[j] = keys[i] })

\* The permutation a stable descending sort of keys produces: place -> element.
DescendingOrder(keys) ==
    [p \in 1..Len(keys) |-> CHOOSE i \in 1..Len(keys) : DescendingRank(keys, i) = p]

\* list.sort(key=..., reverse=True): descending by key, equal keys keep their order.
SortReverse(items, keys) ==
    [p \in 1..Len(items) |-> items[DescendingOrder(keys)[p]]]

\* s[:k] for k >= 0.
Prefix(s, k) == SubSeq(s, 1, Min2(k, Len(s)))

\* NLargest as DataFrame.head(n): the first n rows in table order.
NLargestHead(n, keys) == Prefix([i \in 1..Len(keys) |-> i], n)

\* DataFrame.nlargest(n, column) (keep='first') as the row places it selects.
NLargest(n, keys) == Prefix(DescendingOrder(keys), n)

\* DataFrame.nsmallest(n, column) (keep='first') as the row places it selects:
\* ascending by key is descending by the negated key.
NSmallest(n, keys) == Prefix(DescendingOrder([i \in 1..Len(keys) |-> -keys[i]]), n)

(***************************************************************************)
(* score_new_location                                                      *)
(***************************************************************************)
\* The keys the result dict reads with features[...], in the order it reads them.
KeyFactorKeys == <<"dist_to_kemang", "dist_to_sudirman_cbd", "dist_to_senayan">>

\* FeatureVector over the declared names the features hold only: a name the
\* extractor did not produce gets no entry.
FeatureVectorPresentOnly(features) ==
    [i \in 1..Len(SelectSeq(spatial_features, LAMBDA f : f \in DOMAIN features)) |->
       features[SelectSeq(spatial_features, LAMBDA f : f \in DOMAIN features)[i]]]

\* The feature vector: one entry per declared name, features.get(name, 0).
FeatureVector(features) ==
    [i \in 1..Len(spatial_features) |-> Get(features, spatial_features[i], 0)]

\* The score as the result reports it: round(score, 3).
ReportedScore(score) == Round3(score)

\* The result dict of score_new_location.
ScoreResult(latitude, longitude, district, category, features, score) ==
    [ location |-> [coordinates |-> <<latitude, longitude>>,
                    district |-> district, category |-> category],
      spatial_score |-> [score |-> ReportedScore(score),
                         level |-> CategorizeScore(score),
                         confidence |-> "Medium"],
      key_factors |-> [distance_to_kemang_km |-> Round2Km(features["dist_to_kemang"]),
                       distance_to_cbd_km |-> Round2Km(features["dist_to_sudirman_cbd"]),
                       distance_to_senayan_km |-> Round2Km(features["dist_to_senayan"]),
                       competitors_1km |-> features["competitors_1.0km"],
                       market_intensity_billions |->
                           RoundDiv(features["competition_intensity_1.0km"], 10000)],
      recommendation |-> GenerateRecommendation(score),
      spatial_insights |-> GenerateSpatialInsights(features) ]

\* The first of the keys the result dict reads that features lacks, 0 if none.
FirstMissingKey(features) ==
    IF \A i \in 1..Len(KeyFactorKeys) : KeyFactorKeys[i] \in DOMAIN features
    THEN 0
    ELSE Minimum({ i \in 1..Len(KeyFactorKeys) : KeyFactorKeys[i] \notin DOMAIN features })

\* The return statement: the result dict, or the KeyError of the first key
\* the dict reads that the features lack.
ScoreReturn(latitude, longitude, district, category, features, feature_vector, score, missing) ==
    IF missing # 0
    THEN [raised |-> TRUE, error |-> "KeyError: " \o KeyFactorKeys[missing],
          features |-> features, feature_vector |-> feature_vector, score |-> score]
    ELSE [raised |-> FALSE,
          features |-> features, feature_vector |-> feature_vector, score |-> score,
          result |-> ScoreResult(latitude, longitude, district, category,
                                 features, score)]

\* From the feature vector on: scale, predict, return.
ScoreVector(latitude, longitude, district, category, features, feature_vector) ==
    ScoreReturn(latitude, longitude, district, category, features, feature_vector,
                Predict(spatial_model, Transform(spatial_scaler, feature_vector)),
                FirstMissingKey(features))

\* From the spatial features on: add the two codes, build the vector.
ScoreFeatures(latitude, longitude, district, category, features) ==
    ScoreVector(latitude, longitude, district, category, features,
                FeatureVector(features))

ScoreSpatial(latitude, longitude, district, category, spatial) ==
    IF spatial.raised
    THEN [raised |-> TRUE, error |-> spatial.error]
    ELSE ScoreFeatures(latitude, longitude, district, category,
                       ("districtName" :> EncodeCategorical(district, "districtName"))
                       @@ ("Category" :> EncodeCategorical(category, "Category"))
                       @@ spatial.features)

\* score_new_location(latitude, longitude, district, category): its locals and
\* either the result or the exception that leaves it.
ScoreNewLocation(latitude, longitude, district, category) ==
    ScoreSpatial(latitude, longitude, district, category,
                 CalculateSpatialFeatures(latitude, longitude, category))

(***************************************************************************)
(* compare_locations                                                       *)
(***************************************************************************)
\* The loop: one scoring per location, in input order.
ScoreAll(locations_list) ==
    [i \in 1..Len(locations_list) |->
       ScoreNewLocation(locations_list[i].latitude, locations_list[i].longitude,
                        locations_list[i].district, locations_list[i].category)]

\* results.sort(key=lambda x: x['spatial_score']['score'], reverse=True)
SortResults(results) ==
    [raised |-> FALSE,
     results |-> results,
     result |-> SortReverse(results,
                            [i \in 1..Len(results) |-> results[i].spatial_score.score])]

\* The first exception of a scoring leaves the loop; otherwise sort.
CompareScored(scored) ==
    IF \E i \in 1..Len(scored) : scored[i].raised
    THEN [raised |-> TRUE,
          error |-> scored[Minimum({ i \in 1..Len(scored) : scored[i].raised })].error]
    ELSE SortResults([i \in 1..Len(scored) |-> scored[i].result])

\* compare_locations(locations_list)
CompareLocations(locations_list) == CompareScored(ScoreAll(locations_list))

(***************************************************************************)
(* analyze_portfolio                                                       *)
(***************************************************************************)
\* The columns read_csv loads with dtype object.
ObjectColumns == {"branchName", "districtName", "Category"}

\* pd.Categorical(column).codes: the place of each value among the column's
\* distinct values sorted lexicographically, from 0.
CategoricalCodes(col) ==
    [i \in 1..Len(col) |-> Cardinality({ v \in Range(col) : LexLess(v, col[i]) })]

\* One column of X_existing: an object column is replaced by its codes.
ExistingColumn(name) ==
    IF name \in ObjectColumns THEN CategoricalCodes(Column(name)) ELSE Column(name)

\* X_existing: the existing_features columns, row by row.
ExistingMatrix ==
    [i \in 1..Len(reference_data) |->
       [j \in 1..Len(existing_features) |-> ExistingColumn(existing_features[j])[i]]]

\* The bin edges and labels given to pd.cut: [-inf, -0.1, 0.1, inf].
CutBins == << [inf |-> -1, value |-> 0], [inf |-> 0, value |-> -1000],
              [inf |-> 0, value |-> 1000], [inf |-> 1, value |-> 0] >>

CutLabels == <<"Underperforming", "As Expected", "Overperforming">>

\* UpToEdge with the bins open on the right as well: x < hi.
UpToEdgeOpen(x, hi) == IF hi.inf # 0 THEN hi.inf > 0 ELSE x < hi.value

\* lo < x for a bin edge lo, and x <= hi for a bin edge hi (x is finite).
AboveEdge(x, lo) == IF lo.inf # 0 THEN lo.inf < 0 ELSE lo.value < x

UpToEdge(x, hi) == IF hi.inf # 0 THEN hi.inf > 0 ELSE x <= hi.value

\* BinsOf with the bins closed on the left, [lo, hi), as pd.cut(right=False).
BinsOfLeftClosed(x, bins) ==
    { b \in 1..(Len(bins) - 1) :
        /\ (IF bins[b].inf # 0 THEN bins[b].inf < 0 ELSE bins[b].value <= x)
        /\ (IF bins[b + 1].inf # 0 THEN bins[b + 1].inf > 0 ELSE x < bins[b + 1].value) }

\* The bins (lo, hi] of pd.cut (right=True) that contain x.
BinsOf(x, bins) ==
    { b \in 1..(Len(bins) - 1) : AboveEdge(x, bins[b]) /\ UpToEdge(x, bins[b + 1]) }

\* pd.cut(x, bins, labels): the label of x's bin, "NaN" when no bin contains x.
Cut(x, bins, labels) ==
    IF BinsOf(x, bins) = {} THEN "NaN"
    ELSE labels[CHOOSE b \in BinsOf(x, bins) : \A c \in BinsOf(x, bins) : b <= c]

\* One row of the local table `portfolio`, with its three derived columns.
PortfolioRow(row, predicted, gap) ==
    [branch_id |-> row.branch_id,
     branchName |-> row.branchName,
     districtName |-> row.districtName,
     Category |-> row.Category,
     performance_score |-> row.performance_score,
     predicted_score |-> predicted,
     performance_gap |-> gap,
     status |-> Cut(gap, CutBins, CutLabels)]

\* performance_gap = performance_score - predicted_score
PortfolioOf(row, predicted) ==
    PortfolioRow(row, predicted, row.performance_score - predicted)

\* The local table `portfolio` from X_existing.
PortfolioFrom(X_existing) ==
    [i \in 1..Len(reference_data) |->
       PortfolioOf(reference_data[i],
                   Predict(existing_model, Transform(existing_scaler, X_existing[i])))]

Portfolio == PortfolioFrom(ExistingMatrix)

\* round(mean of the values, 3): the values are in units of 1e-4.
RoundedMean(values) == RoundDiv(SumSeq(values), 10 * Len(values))

\* The rows of table whose column equals value, as a sequence in table order.
RECURSIVE RowsWhere(_, _, _)
RowsWhere(table, column_name, value) ==
    IF table = <<>> THEN <<>>
    ELSE LET rest == RowsWhere(SubSeq(table, 1, Len(table) - 1), column_name, value)
             last == table[Len(table)]
         IN  IF last[column_name] = value THEN Append(rest, last) ELSE rest

FieldOf(table, field) == [i \in 1..Len(table) |-> table[i][field]]

\* The two rounded means of one group.
GroupMeans(rows) ==
    [performance_score |-> RoundedMean(FieldOf(rows, "performance_score")),
     performance_gap |-> RoundedMean(FieldOf(rows, "performance_gap"))]

\* _analyze_by_district / _analyze_by_category: per group, both means rounded.
AnalyzeBy(portfolio, column_name) ==
    [g \in Range(FieldOf(portfolio, column_name)) |->
       GroupMeans(RowsWhere(portfolio, column_name, g))]

\* The records nlargest / nsmallest select, reduced to the listed columns.
Records(portfolio, places, key) ==
    [p \in 1..Len(places) |->
       [branchName |-> portfolio[places[p]].branchName,
        districtName |-> portfolio[places[p]].districtName]
       @@ (key :> portfolio[places[p]][key])]

\* The dict analyze_portfolio returns, from the local table.
PortfolioResult(portfolio, scores, gaps) ==
    [portfolio_summary |->
       [total_branches |-> Len(portfolio),
        avg_performance |-> RoundedMean(scores),
        avg_potential |-> RoundedMean(FieldOf(portfolio, "predicted_score")),
        optimization_gap |-> Round3(SumSeq(gaps))],
     status_distribution |->
       [l \in Range(CutLabels) |->
          Cardinality({ i \in 1..Len(portfolio) : portfolio[i].status = l })],
     top_performers |->
       Records(portfolio, NLargest(5, scores), "performance_score"),
     optimization_candidates |->
       Records(portfolio, NSmallest(5, gaps), "performance_gap"),
     best_practice_sources |->
       Records(portfolio, NLargest(5, gaps), "performance_gap"),
     district_insights |-> AnalyzeBy(portfolio, "districtName"),
     category_insights |-> AnalyzeBy(portfolio, "Category")]

AnalyzeTable(portfolio) ==
    [raised |-> FALSE,
     portfolio |-> portfolio,
     result |-> PortfolioResult(portfolio,
                                FieldOf(portfolio, "performance_score"),
                                FieldOf(portfolio, "performance_gap"))]

\* analyze_portfolio(): the scaler rejects a table of no rows (ValueError).
AnalyzePortfolio ==
    IF reference_data = <<>>
    THEN [raised |-> TRUE, error |-> "ValueError: Found array with 0 sample(s)"]
    ELSE AnalyzeTable(Portfolio)

\* ReferenceAfterAnalysis with the derived columns written to the table itself
\* (portfolio = self.reference_data, without the copy).
ReferenceAnalyzedInPlace(outcome) ==
    IF outcome.raised THEN reference_data
    ELSE [i \in 1..Len(reference_data) |-> outcome.portfolio[i] @@ reference_data[i]]

\* ReferenceAfterAnalysis with the table itself sorted by performance score,
\* best first (a sort in place ahead of the top lists).
ReferenceSortedInPlace(outcome) ==
    SortReverse(reference_data, Column("performance_score"))

\* self.reference_data once analyze_portfolio is over: X_existing and portfolio
\* are copies, so the encoding and the derived columns leave the table alone.
ReferenceAfterAnalysis(outcome) == reference_data

(***************************************************************************)
(* find_optimal_districts                                                  *)
(***************************************************************************)
\* groupby('districtName')['performance_score'] of one district: sum and count.
DistrictTotal(source, d) ==
    SumSeq(FieldOf(RowsWhere(source, "districtName", d), "performance_score"))

DistrictCount(source, d) == Len(RowsWhere(source, "districtName", d))

\* The group means over a common denominator, so that they compare exactly.
CommonMeans(source, districts, common) ==
    [i \in 1..Len(districts) |->
       DistrictTotal(source, districts[i])
         * (common \div DistrictCount(source, districts[i]))]

DistrictMeans(source, districts) ==
    CommonMeans(source, districts,
                Product([i \in 1..Len(districts) |->
                           DistrictCount(source, districts[i])]))

\* One entry of the returned list.
DistrictEntry(category_data, source, district) ==
    [district |-> district,
     avg_performance |-> RoundDiv(DistrictTotal(source, district),
                                  10 * DistrictCount(source, district)),
     existing_branches |->
         IF Len(category_data) > 0
         THEN Len(RowsWhere(category_data, "districtName", district))
         ELSE 0]

\* The list comprehension over top_districts.
DistrictEntries(category_data, source, districts, top_districts) ==
    [p \in 1..Len(top_districts) |->
       DistrictEntry(category_data, source, districts[top_districts[p]])]

\* groupby sorts the group keys; nlargest keeps the first of equal means.
RankDistricts(category_data, source, districts, num_districts) ==
    DistrictEntries(category_data, source, districts,
                    NLargest(num_districts, DistrictMeans(source, districts)))

\* The rows the means are taken over: the category's, or all when it has none.
OptimalDistrictsOf(category_data, source, num_districts) ==
    RankDistricts(category_data, source,
                  SortedNames(Range(FieldOf(source, "districtName"))),
                  num_districts)

\* OptimalDistrictsIn without the restriction to the category: the means are
\* always taken over every row.
OptimalDistrictsInAllRows(category_data, num_districts) ==
    OptimalDistrictsOf(category_data, reference_data, num_districts)

\* if len(category_data) == 0: the means of all rows; else those of the category.
OptimalDistrictsIn(category_data, num_districts) ==
    OptimalDistrictsOf(category_data,
                       IF Len(category_data) = 0 THEN reference_data ELSE category_data,
                       num_districts)

\* find_optimal_districts(category, num_districts)
FindOptimalDistricts(category, num_districts) ==
    OptimalDistrictsIn(RowsWhere(reference_data, "Category", category), num_districts)

(***************************************************************************)
(* generate_expansion_report                                               *)
(***************************************************************************)
DefaultFocusCategories ==
    <<"Fresh Juices", "Salads and Bowls", "Coffee and Hot Beverages">>

\* The fixed sample coordinates: (-6.225, 106.825), (-6.235, 106.805) and
\* (-6.245, 106.795) as cells around the second.
SampleCoords ==
    << [latitude |-> 2, longitude |-> 4, district |-> "Setia Budi"],
       [latitude |-> 0, longitude |-> 0, district |-> "Kebayoran Baru"],
       [latitude |-> -2, longitude |-> -2, district |-> "Kebayoran Baru"] >>

\* SampleCategory without the cycling: every sample gets the first category.
SampleCategoryFirst(i, focus_categories) == focus_categories[1]

\* The category given to sample i (from 0): focus_categories[i % len(focus_categories)].
SampleCategory(i, focus_categories) ==
    focus_categories[(i % Len(focus_categories)) + 1]

\* sample_locations: one per sample coordinate.
SampleLocations(focus_categories) ==
    [i \in 1..Len(SampleCoords) |->
       [latitude |-> SampleCoords[i].latitude,
        longitude |-> SampleCoords[i].longitude,
        district |-> SampleCoords[i].district,
        category |-> SampleCategory(i - 1, focus_categories)]]

\* sample_locations[:target_branches]
RequestedSamples(sample_locations, target_branches) ==
    Prefix(sample_locations, target_branches)

\* The dict of the except branch.
ErrorReport(target_branches, error) ==
    [error |-> error,
     executive_summary |-> [target_new_branches |-> target_branches,
                            status |-> "Error occurred during report generation"]]

\* The dict of the normal return.
FullReport(target_branches, focus_categories, portfolio, location_scores) ==
    [executive_summary |->
       [target_new_branches |-> target_branches,
        focus_categories |-> focus_categories,
        recommended_districts |-> <<"Setia Budi", "Kebayoran Baru">>,
        total_investment_estimate |->
            ToString(target_branches * 500) \o "M - "
            \o ToString(target_branches * 800) \o "M IDR"],
     portfolio_optimization |->
       [current_performance |-> portfolio.portfolio_summary,
        optimization_candidates |-> Len(portfolio.optimization_candidates),
        best_practice_sources |-> Len(portfolio.best_practice_sources)],
     category_opportunities |->
       [c \in 1..Len(focus_categories) |->
          [category |-> focus_categories[c],
           optimal_districts |-> FindOptimalDistricts(focus_categories[c], 2)]],
     location_recommendations |-> location_scores,
     risk_assessment |->
       [model_confidence |-> "Medium (R2 = 0.451-0.464)",
        market_risk |-> "Low-Medium",
        competition_risk |-> "Medium",
        location_risk |-> "Medium - validate with market research"],
     next_steps |->
       <<"Validate top locations with field research",
         "Analyze foot traffic patterns",
         "Study local competition details",
         "Optimize underperforming existing branches">>]

\* ReportScored with the scoring outside the try block: its exception propagates.
ReportScoredUncaught(target_branches, focus_categories, portfolio, sample_locations, location_scores) ==
    IF location_scores.raised
    THEN [raised |-> TRUE, error |-> location_scores.error]
    ELSE [raised |-> FALSE,
          sample_locations |-> sample_locations,
          result |-> FullReport(target_branches, focus_categories, portfolio.result,
                                location_scores.result)]

\* The end of the try block: compare_locations on the requested samples.
ReportScored(target_branches, focus_categories, portfolio, sample_locations, location_scores) ==
    IF location_scores.raised
    THEN [raised |-> FALSE,
          sample_locations |-> sample_locations,
          result |-> ErrorReport(target_branches, location_scores.error)]
    ELSE [raised |-> FALSE,
          sample_locations |-> sample_locations,
          result |-> FullReport(target_branches, focus_categories, portfolio.result,
                                location_scores.result)]

ReportSamples(target_branches, focus_categories, portfolio, sample_locations) ==
    ReportScored(target_branches, focus_categories, portfolio, sample_locations,
                 CompareLocations(RequestedSamples(sample_locations, target_branches)))

\* ReportTry with a category assigned to the requested samples only: with no
\* sample requested nothing is taken from focus_categories.
ReportTryRequestedOnly(target_branches, focus_categories, portfolio) ==
    IF portfolio.raised
    THEN [raised |-> FALSE, result |-> ErrorReport(target_branches, portfolio.error)]
    ELSE IF Len(focus_categories) = 0 /\ target_branches > 0
    THEN [raised |-> FALSE,
          result |-> ErrorReport(target_branches,
                                 "ZeroDivisionError: integer modulo by zero")]
    ELSE IF Len(focus_categories) = 0
    THEN ReportScored(target_branches, focus_categories, portfolio, <<>>,
                      CompareLocations(<<>>))
    ELSE ReportSamples(target_branches, focus_categories, portfolio,
                       SampleLocations(focus_categories))

\* The try block after analyze_portfolio: every exception becomes the error dict.
ReportTry(target_branches, focus_categories, portfolio) ==
    IF portfolio.raised
    THEN [raised |-> FALSE, result |-> ErrorReport(target_branches, portfolio.error)]
    ELSE IF Len(focus_categories) = 0
    THEN [raised |-> FALSE,
          result |-> ErrorReport(target_branches,
                                 "ZeroDivisionError: integer modulo by zero")]
    ELSE ReportSamples(target_branches, focus_categories, portfolio,
                       SampleLocations(focus_categories))

\* generate_expansion_report(target_branches, focus_categories); the argument
\* is [given |-> FALSE, ...] for None.
GenerateExpansionReport(target_branches, focus_categories_arg) ==
    ReportTry(target_branches,
              IF focus_categories_arg.given
              THEN focus_categories_arg.value
              ELSE DefaultFocusCategories,
              AnalyzePortfolio)

(***************************************************************************)
(* The caller's inputs.                                                    *)
(***************************************************************************)
CandidateLocations ==
    { [latitude |-> 0, longitude |-> 0,
       district |-> "Kebayoran Baru", category |-> "Fresh Juices"],
      [latitude |-> 0, longitude |-> 0,
       district |-> "Cilandak", category |-> "Fresh Juices"],
      [latitude |-> 2, longitude |-> 4,
       district |-> "Setia Budi", category |-> "Salads and Bowls"],
      [latitude |-> -2, longitude |-> -2,
       district |-> "Kebayoran Baru", category |-> "Coffee and Hot Beverages"] }

LocationLists == SeqsUpTo(CandidateLocations, MaxLocations)

\* Points entered at the exact coordinates of a landmark.
LandmarkPoints ==
    { [latitude |-> t[n][1], longitude |-> t[n][2],
       district |-> "Kebayoran Baru", category |-> "Fresh Juices"] :
        n \in {"kemang", "sudirman_cbd", "senayan"},
        t \in { u \in LandmarkTables : DOMAIN u = {"kemang", "sudirman_cbd", "senayan"} } }

\* The locations given to score_new_location.
ScoreInputs == CandidateLocations \cup LandmarkPoints

CategoryInputs == {"Fresh Juices", "Salads and Bowls", "Coffee and Hot Beverages"}

NumDistrictsInputs == {0, 1, 2, 3}

TargetInputs == 0..MaxTarget

FocusInputs ==
    { [given |-> FALSE, value |-> <<>>],
      [given |-> TRUE, value |-> <<>>],
      [given |-> TRUE, value |-> <<"Salads and Bowls">>],
      [given |-> TRUE, value |-> <<"Fresh Juices", "Coffee and Hot Beverages">>],
      [given |-> TRUE, value |-> <<"Coffee and Hot Beverages", "Fresh Juices",
                                   "Salads and Bowls", "Fresh Juices">>] }

(***************************************************************************)
(* The state machine.                                                      *)
(***************************************************************************)
NoCall == [op |-> "none"]

NoValue == [raised |-> FALSE]

\* st.session_state with no key, and the record of no script run.
EmptySession == [k \in {} |-> NoValue]

NoRun == [page |-> "none", outcome |-> "none"]

\* __init__ / _load_components: the state once every artifact is loaded.
Init ==
    /\ reference_data \in ReferenceTables \cup LongTables
    /\ landmarks \in LandmarkTables
    /\ spatial_features \in SpatialFeatureLists
    /\ existing_features \in ExistingFeatureLists
    /\ spatial_scaler \in SpatialScalers
    /\ existing_scaler \in ExistingScalers
    /\ spatial_model \in SpatialModels
    /\ existing_model \in ExistingModels
    /\ pc = "idle"
    /\ call = NoCall
    /\ ret = NoValue
    /\ frame = NoValue
    /\ session_state = EmptySession
    /\ rendered = NoRun

\* What the caller sees of an operation's outcome.
Returned(outcome) ==
    IF outcome.raised
    THEN [raised |-> TRUE, error |-> outcome.error]
    ELSE [raised |-> FALSE, value |-> outcome.result]

ScoreNewLocationCall ==
    /\ pc = "idle"
    /\ \E loc \in ScoreInputs :
         /\ call' = [op |-> "score_new_location", latitude |-> loc.latitude,
                     longitude |-> loc.longitude, district |-> loc.district,
                     category |-> loc.category]
         /\ frame' = ScoreNewLocation(loc.latitude, loc.longitude,
                                      loc.district, loc.category)
         /\ ret' = Returned(frame')
    /\ pc' = "returned"
    /\ UNCHANGED artifacts
    /\ UNCHANGED dashboard

AnalyzePortfolioCall ==
    /\ pc = "idle"
    /\ call' = [op |-> "analyze_portfolio"]
    /\ frame' = AnalyzePortfolio
    /\ ret' = Returned(frame')
    /\ pc' = "returned"
    /\ reference_data' = ReferenceAfterAnalysis(frame')
    /\ UNCHANGED <<landmarks, spatial_features, existing_features,
                   spatial_scaler, existing_scaler, spatial_model, existing_model>>
    /\ UNCHANGED dashboard

CompareLocationsCall ==
    /\ pc = "idle"
    /\ \E locations_list \in LocationLists :
         /\ call' = [op |-> "compare_locations", locations_list |-> locations_list]
         /\ frame' = CompareLocations(locations_list)
         /\ ret' = Returned(frame')
    /\ pc' = "returned"
    /\ UNCHANGED artifacts
    /\ UNCHANGED dashboard

FindOptimalDistrictsCall ==
    /\ pc = "idle"
    /\ \E category \in CategoryInputs, num_districts \in NumDistrictsInputs :
         /\ call' = [op |-> "find_optimal_districts", category |-> category,
                     num_districts |-> num_districts]
         /\ ret' = [raised |-> FALSE,
                    value |-> FindOptimalDistricts(category, num_districts)]
         /\ frame' = NoValue
    /\ pc' = "returned"
    /\ UNCHANGED artifacts
    /\ UNCHANGED dashboard

GenerateExpansionReportCall ==
    /\ pc = "idle"
    /\ \E target_branches \in TargetInputs, focus_categories \in FocusInputs :
         /\ call' = [op |-> "generate_expansion_report",
                     target_branches |-> target_branches,
                     focus_categories |-> focus_categories]
         /\ frame' = GenerateExpansionReport(target_branches, focus_categories)
         /\ ret' = Returned(frame')
    /\ pc' = "returned"
    /\ reference_data' = ReferenceAfterAnalysis(AnalyzePortfolio)
    /\ UNCHANGED <<landmarks, spatial_features, existing_features,
                   spatial_scaler, existing_scaler, spatial_model, existing_model>>
    /\ UNCHANGED dashboard

\* The caller has taken the returned value (or handled the exception) and is
\* ready for its next call.
Resume ==
    /\ pc = "returned"
    /\ pc' = "idle"
    /\ call' = NoCall
    /\ ret' = NoValue
    /\ frame' = NoValue
    /\ UNCHANGED artifacts
    /\ UNCHANGED dashboard

Next ==
    \/ ScoreNewLocationCall
    \/ AnalyzePortfolioCall
    \/ CompareLocationsCall
    \/ FindOptimalDistrictsCall
    \/ GenerateExpansionReportCall
    \/ Resume

Spec == Init /\ [][Next]_vars

(***************************************************************************)
(* The dashboard (app.py): one session of script runs.  A run starts at    *)
(* the top of main (MainLoad) and, unless it stops there, goes on to the   *)
(* sidebar and the selected page.                                          *)
(***************************************************************************)
\* The files _load_components reads, in the order it reads them.
ArtifactFiles ==
    <<"spatial_model", "existing_model", "spatial_scaler", "existing_scaler",
      "spatial_features", "existing_features", "reference_data", "metadata">>

\* The load that raises: 0 for none, i for the i-th file.
LoadFailures == 0..Len(ArtifactFiles)

\* _load_components(): the attributes assigned, and the exception of the first
\* load that fails.
LoadComponents(failing) ==
    IF failing = 0
    THEN [raised |-> FALSE, loaded |-> Range(ArtifactFiles)]
    ELSE [raised |-> TRUE,
          error |-> "FileNotFoundError: " \o ArtifactFiles[failing],
          loaded |-> { ArtifactFiles[i] : i \in 1..(failing - 1) }]

\* RestaurantLocationML(model_path): __init__ lets the exception of
\* _load_components through, so a failed load yields no object.
Construct(components) ==
    IF components.raised
    THEN [raised |-> TRUE, error |-> components.error]
    ELSE [raised |-> FALSE,
          result |-> [instance |-> TRUE, loaded |-> components.loaded]]

\* Python's None where an instance is expected.
None == [instance |-> FALSE]

\* load_ml_system(): the instance, or None on any exception.
LoadMlSystem(constructed) ==
    IF constructed.raised THEN None ELSE constructed.result

\* Stops with the test left out: the run goes on whatever was loaded.
StopsNever(ml_system) == FALSE

\* if not ml_system: st.error(...); st.stop()
Stops(ml_system) == ~ml_system.instance

\* st.session_state[key] = value, and del st.session_state[key] for each key
\* present.
With(state, key, value) ==
    (key :> value) @@ [k \in DOMAIN state \ {key} |-> state[k]]

Without(state, keys) == [k \in DOMAIN state \ keys |-> state[k]]

\* create_dummy_portfolio_data(): scores and gaps in units of 1e-3.
DummyPortfolioData ==
    [portfolio_summary |->
       [total_branches |-> 15, avg_performance |-> 342,
        avg_potential |-> 356, optimization_gap |-> 140],
     status_distribution |->
       [l \in Range(CutLabels) |->
          IF l = "Overperforming" THEN 5 ELSE IF l = "As Expected" THEN 7 ELSE 3],
     top_performers |->
       << [branchName |-> "Kemang Raya", districtName |-> "Kemang",
           performance_score |-> 485],
          [branchName |-> "SCBD Plaza", districtName |-> "Setia Budi",
           performance_score |-> 467],
          [branchName |-> "Senayan City", districtName |-> "Kebayoran Baru",
           performance_score |-> 441],
          [branchName |-> "Blok M Square", districtName |-> "Kebayoran Baru",
           performance_score |-> 423],
          [branchName |-> "Pondok Indah Mall", districtName |-> "Cilandak",
           performance_score |-> 402] >>,
     optimization_candidates |->
       << [branchName |-> "Fatmawati", districtName |-> "Cilandak",
           performance_gap |-> -87],
          [branchName |-> "Tebet Raya", districtName |-> "Tebet",
           performance_gap |-> -56],
          [branchName |-> "Warung Buncit", districtName |-> "Mampang",
           performance_gap |-> -34] >>,
     district_insights |->
       ("Kemang" :> [performance_score |-> 445, performance_gap |-> 23])
       @@ ("Setia Budi" :> [performance_score |-> 412, performance_gap |-> 18])
       @@ ("Kebayoran Baru" :> [performance_score |-> 389, performance_gap |-> 12])
       @@ ("Cilandak" :> [performance_score |-> 298, performance_gap |-> -45])
       @@ ("Mampang" :> [performance_score |-> 267, performance_gap |-> -67]),
     category_insights |->
       ("Fresh Juices" :> [performance_score |-> 378, performance_gap |-> 15])
       @@ ("Coffee and Hot Beverages" :> [performance_score |-> 356, performance_gap |-> 8])
       @@ ("Salads and Bowls" :> [performance_score |-> 334, performance_gap |-> -12])
       @@ ("Japanese Cuisine" :> [performance_score |-> 289, performance_gap |-> -34])]

\* load_portfolio_data(ml_system) for an instance: the analysis, or the dummy
\* data when analyze_portfolio raises.
LoadPortfolioData(analysis) ==
    IF analysis.raised THEN DummyPortfolioData ELSE analysis.result

\* The Location Comparison page with its widgets at their defaults: three
\* locations, (-6.235 - 0.01 i, 106.805 + 0.01 i), first district and category.
DefaultComparison ==
    [i \in 1..3 |->
       [latitude |-> -2 * (i - 1), longitude |-> 2 * (i - 1),
        district |-> "Kebayoran Baru", category |-> "Fresh Juices"]]

\* The Expansion Report page with its widgets at their defaults.
DefaultReport ==
    [target_branches |-> 3,
     focus_categories |-> [given |-> TRUE,
                           value |-> <<"Fresh Juices", "Coffee and Hot Beverages">>]]

\* The tables reference_branches.csv may hold in a session of the dashboard.
DashboardTables == LongTables \cup { <<>> }

\* The session before its first script run; the artifact variables hold what
\* the files of the model directory load to.
InitApp ==
    /\ reference_data \in DashboardTables
    /\ landmarks \in LandmarkTables
    /\ spatial_features \in SpatialFeatureLists
    /\ existing_features \in ExistingFeatureLists
    /\ spatial_scaler \in SpatialScalers
    /\ existing_scaler \in ExistingScalers
    /\ spatial_model \in SpatialModels
    /\ existing_model \in ExistingModels
    /\ pc = "idle"
    /\ call = NoCall
    /\ ret = NoValue
    /\ frame = NoValue
    /\ session_state = EmptySession
    /\ rendered = NoRun

\* The top of main: load the system when the session has none, stop the run
\* when the session holds None.
MainLoad ==
    /\ pc = "idle"
    /\ \E failing \in LoadFailures :
         IF "ml_system" \in DOMAIN session_state
         THEN /\ UNCHANGED session_state
              /\ call' = NoCall
              /\ ret' = NoValue
         ELSE /\ call' = [op |-> "RestaurantLocationML", failing |-> failing]
              /\ ret' = Returned(Construct(LoadComponents(failing)))
              /\ session_state' =
                   With(session_state, "ml_system",
                        LoadMlSystem(Construct(LoadComponents(failing))))
    /\ pc' = IF Stops(session_state'["ml_system"]) THEN "idle" ELSE "main"
    /\ rendered' = IF Stops(session_state'["ml_system"])
                   THEN [page |-> "none", outcome |-> "stopped"]
                   ELSE [page |-> "none", outcome |-> "running"]
    /\ frame' = NoValue
    /\ UNCHANGED artifacts

\* The end of a run that rendered a page.
PageRendered(page) ==
    /\ pc' = "idle"
    /\ rendered' = [page |-> page, outcome |-> "rendered"]
    /\ frame' = NoValue

\* The Refresh Data button: drop the three keys and rerun the script.
RefreshData ==
    /\ pc = "main"
    /\ session_state' =
         Without(session_state, {"ml_system", "portfolio_data", "portfolio_analysis"})
    /\ call' = NoCall
    /\ ret' = NoValue
    /\ pc' = "idle"
    /\ rendered' = [page |-> "none", outcome |-> "rerun"]
    /\ frame' = NoValue
    /\ UNCHANGED artifacts

\* A page that shows the portfolio analysis kept under key, loading it first
\* when the session does not hold it.
PortfolioPage(page, key) ==
    /\ IF key \in DOMAIN session_state
       THEN /\ UNCHANGED session_state
            /\ call' = NoCall
            /\ ret' = NoValue
            /\ UNCHANGED reference_data
       ELSE /\ call' = [op |-> "analyze_portfolio"]
            /\ ret' = Returned(AnalyzePortfolio)
            /\ session_state' = With(session_state, key, LoadPortfolioData(AnalyzePortfolio))
            /\ reference_data' = ReferenceAfterAnalysis(AnalyzePortfolio)
    /\ PageRendered(page)
    /\ UNCHANGED <<landmarks, spatial_features, existing_features,
                   spatial_scaler, existing_scaler, spatial_model, existing_model>>

Dashboard ==
    /\ pc = "main"
    /\ PortfolioPage("Dashboard", "portfolio_data")

PortfolioAnalysis ==
    /\ pc = "main"
    /\ PortfolioPage("Portfolio Analysis", "portfolio_analysis")

\* The value a page keeps under key after a call inside try / except: the
\* result, or what the session held when the call raised.
Kept(state, key, outcome) ==
    IF outcome.raised THEN state ELSE With(state, key, outcome.value)

\* The Location Scoring page, with the Score Location button pressed or not.
LocationScoring ==
    /\ pc = "main"
    /\ \/ /\ UNCHANGED session_state
          /\ call' = NoCall
          /\ ret' = NoValue
       \/ \E loc \in CandidateLocations :
            /\ call' = [op |-> "score_new_location", latitude |-> loc.latitude,
                        longitude |-> loc.longitude, district |-> loc.district,
                        category |-> loc.category]
            /\ ret' = Returned(ScoreNewLocation(loc.latitude, loc.longitude,
                                                loc.district, loc.category))
            /\ session_state' = Kept(session_state, "location_result", ret')
    /\ PageRendered("Location Scoring")
    /\ UNCHANGED artifacts

\* The locations the widgets of the Location Comparison page may hold in a
\* run: the defaults, the defaults entered in the opposite order, and the
\* first two defaults (the slider at 2).
ComparisonInputs ==
    { DefaultComparison,
      [i \in 1..3 |-> DefaultComparison[4 - i]],
      Prefix(DefaultComparison, 2) }

\* get_color(score), the score in units of 1e-3.
GetColor(score) ==
    IF score >= 300 THEN "green"
    ELSE IF score >= 200 THEN "orange"
    ELSE IF score >= 100 THEN "red"
    ELSE "darkred"

\* score = scores[i] if scores else 0
MarkerScore(scores, i) == IF Len(scores) = 0 THEN 0 ELSE scores[i]

\* The marker create_location_map adds for the i-th entered location.
Marker(locations, scores, i) ==
    [coordinates |-> <<locations[i].latitude, locations[i].longitude>>,
     district |-> locations[i].district,
     category |-> locations[i].category,
     score |-> MarkerScore(scores, i),
     color |-> GetColor(MarkerScore(scores, i))]

\* create_location_map(locations, scores): one marker per entered location, in
\* the order entered; scores[i] raises when scores is non-empty and shorter
\* than locations.
CreateLocationMap(locations, scores) ==
    IF Len(scores) > 0 /\ Len(scores) < Len(locations)
    THEN [raised |-> TRUE, error |-> "IndexError: list index out of range"]
    ELSE [raised |-> FALSE,
          value |-> [i \in 1..Len(locations) |-> Marker(locations, scores, i)]]

\* scores = [r['spatial_score']['score'] for r in results]
ResultScores(results) == [i \in 1..Len(results) |-> results[i].spatial_score.score]

\* The map the Location Comparison page draws: none while the session keeps
\* no comparison_results, else the entered locations against the scores of
\* the kept results.
ComparisonMap(state, locations) ==
    IF "comparison_results" \in DOMAIN state
    THEN CreateLocationMap(locations, ResultScores(state["comparison_results"]))
    ELSE NoValue

\* The Location Comparison page, with the Compare Locations button pressed or not.
LocationComparison ==
    /\ pc = "main"
    /\ \E locations \in ComparisonInputs :
         /\ \/ /\ UNCHANGED session_state
               /\ call' = NoCall
               /\ ret' = NoValue
            \/ /\ call' = [op |-> "compare_locations", locations_list |-> locations]
               /\ ret' = Returned(CompareLocations(locations))
               /\ session_state' = Kept(session_state, "comparison_results", ret')
         /\ rendered' = [page |-> "Location Comparison", outcome |-> "rendered",
                         locations |-> locations,
                         map |-> ComparisonMap(session_state', locations)]
    /\ pc' = "idle"
    /\ frame' = NoValue
    /\ UNCHANGED artifacts

\* The Expansion Report page, with the Generate Report button pressed or not.
ExpansionReport ==
    /\ pc = "main"
    /\ \/ /\ UNCHANGED session_state
          /\ call' = NoCall
          /\ ret' = NoValue
          /\ UNCHANGED reference_data
       \/ /\ call' = [op |-> "generate_expansion_report",
                      target_branches |-> DefaultReport.target_branches,
                      focus_categories |-> DefaultReport.focus_categories]
          /\ ret' = Returned(GenerateExpansionReport(DefaultReport.target_branches,
                                                     DefaultReport.focus_categories))
          /\ session_state' = Kept(session_state, "expansion_report", ret')
          /\ reference_data' = ReferenceAfterAnalysis(AnalyzePortfolio)
    /\ PageRendered("Expansion Report")
    /\ UNCHANGED <<landmarks, spatial_features, existing_features,
                   spatial_scaler, existing_scaler, spatial_model, existing_model>>

NextApp ==
    \/ MainLoad
    \/ RefreshData
    \/ Dashboard
    \/ LocationScoring
    \/ PortfolioAnalysis
    \/ LocationComparison
    \/ ExpansionReport

SpecApp == InitApp /\ [][NextApp]_vars

(***************************************************************************)
(* Properties.                                                             *)
(***************************************************************************)
\* A call of op has returned a value (it did not raise).
ReturnedFrom(op) == pc = "returned" /\ call.op = op /\ ~ret.raised

\* The 'location' entry a score result carries for an input location.
LocationEntry(loc) ==
    [coordinates |-> <<loc.latitude, loc.longitude>>,
     district |-> loc.district, category |-> loc.category]

ReportedScores(results) == { results[i].spatial_score.score : i \in 1..Len(results) }

WithScore(results, v) == SelectSeq(results, LAMBDA r : r.spatial_score.score = v)

\* C1: compare_locations returns exactly one result per input location, in
\* non-increasing order of reported score, and results of equal score keep the
\* relative order of their locations in the input list.
C1_CompareSortedStable ==
    ReturnedFrom("compare_locations") =>
        /\ Len(ret.value) = Len(call.locations_list)
        /\ Len(frame.results) = Len(call.locations_list)
        /\ \A i \in 1..Len(call.locations_list) :
             frame.results[i].location = LocationEntry(call.locations_list[i])
        /\ \A p \in 1..Len(ret.value), q \in 1..Len(ret.value) :
             p < q => ret.value[p].spatial_score.score >= ret.value[q].spatial_score.score
        /\ \A v \in ReportedScores(frame.results) \cup ReportedScores(ret.value) :
             WithScore(ret.value, v) = WithScore(frame.results, v)

\* C1 witness: a comparison returned two different results of equal score.
C1_Witness ==
    /\ ReturnedFrom("compare_locations")
    /\ Len(ret.value) = 2
    /\ ret.value[1] # ret.value[2]
    /\ ret.value[1].spatial_score.score = ret.value[2].spatial_score.score

\* C2: in analyze_portfolio every branch of the reference table gets exactly
\* one of the three status labels: its gap lies in exactly one bin and its
\* status is that bin's label, never missing.
C2_StatusPartition ==
    ReturnedFrom("analyze_portfolio") =>
        /\ Len(frame.portfolio) = Len(reference_data)
        /\ \A i \in 1..Len(frame.portfolio) :
             /\ frame.portfolio[i].branch_id = reference_data[i].branch_id
             /\ frame.portfolio[i].status \in Range(CutLabels)
             /\ Cardinality(BinsOf(frame.portfolio[i].performance_gap, CutBins)) = 1
        /\ SumSeq([b \in 1..Len(CutLabels) |->
                     ret.value.status_distribution[CutLabels[b]]])
             = Len(reference_data)

\* C2 witness: an analysis labelled one branch whose gap is on a cut point and
\* another branch differently.
C2_Witness ==
    /\ ReturnedFrom("analyze_portfolio")
    /\ \E i, j \in 1..Len(frame.portfolio) :
         /\ frame.portfolio[i].performance_gap = 1000
         /\ frame.portfolio[i].status # frame.portfolio[j].status

\* C3 as stated: Underperforming exactly when gap < -0.1, As Expected exactly
\* when -0.1 <= gap <= 0.1, Overperforming exactly when gap > 0.1.
C3_AsStated ==
    ReturnedFrom("analyze_portfolio") =>
        \A i \in 1..Len(frame.portfolio) :
            LET row == frame.portfolio[i]
                gap == row.performance_score - row.predicted_score
            IN  /\ row.status = "Underperforming" <=> gap < -1000
                /\ row.status = "As Expected" <=> (gap >= -1000 /\ gap <= 1000)
                /\ row.status = "Overperforming" <=> gap > 1000

\* C3 amended: the gap is actual minus predicted; Underperforming exactly when
\* gap <= -0.1, As Expected exactly when -0.1 < gap <= 0.1, Overperforming
\* exactly when gap > 0.1 (each bin includes its upper cut point only).
C3_StatusCutPoints ==
    ReturnedFrom("analyze_portfolio") =>
        \A i \in 1..Len(frame.portfolio) :
            LET row == frame.portfolio[i]
                gap == row.performance_score - row.predicted_score
            IN  /\ row.performance_gap = gap
                /\ row.performance_score = reference_data[i].performance_score
                /\ row.status = "Underperforming" <=> gap <= -1000
                /\ row.status = "As Expected" <=> (gap > -1000 /\ gap <= 1000)
                /\ row.status = "Overperforming" <=> gap > 1000

\* C3 witness: a branch whose gap is exactly -0.1 is Underperforming, beside a
\* branch that is Overperforming.
C3_Witness ==
    /\ ReturnedFrom("analyze_portfolio")
    /\ \E i, j \in 1..Len(frame.portfolio) :
         /\ frame.portfolio[i].performance_gap = -1000
         /\ frame.portfolio[i].status = "Underperforming"
         /\ frame.portfolio[j].performance_gap > 1000
         /\ frame.portfolio[j].status = "Overperforming"

\* The arguments of the report call.
FocusOf(arg) == IF arg.given THEN arg.value ELSE DefaultFocusCategories

\* Some step of report assembly fails: the portfolio analysis (no row to
\* scale), the category cycling (no category), or the scoring of a requested
\* sample (a landmark distance the result reads is absent).
AssemblyFails ==
    \/ reference_data = <<>>
    \/ FocusOf(call.focus_categories) = <<>>
    \/ /\ call.target_branches > 0
       /\ ~(Range(KeyFactorKeys) \subseteq { "dist_to_" \o n : n \in DOMAIN landmarks })

FullReportKeys ==
    {"executive_summary", "portfolio_optimization", "category_opportunities",
     "location_recommendations", "risk_assessment", "next_steps"}

\* C4: generate_expansion_report never raises: when a step of the assembly
\* fails it returns a dict with 'error' and 'executive_summary', and otherwise
\* the full report.
C4_ReportNeverRaises ==
    (pc = "returned" /\ call.op = "generate_expansion_report") =>
        /\ ~ret.raised
        /\ IF AssemblyFails
           THEN /\ DOMAIN ret.value = {"error", "executive_summary"}
                /\ ret.value.executive_summary.target_new_branches = call.target_branches
           ELSE DOMAIN ret.value = FullReportKeys

\* C4 witness: a report whose sample scoring failed came back error-shaped,
\* with the table and the categories in order.
C4_Witness ==
    /\ ReturnedFrom("generate_expansion_report")
    /\ reference_data # <<>>
    /\ FocusOf(call.focus_categories) # <<>>
    /\ "error" \in DOMAIN ret.value
    /\ "executive_summary" \in DOMAIN ret.value

\* A report call returned the full report.
FullReportReturned ==
    /\ ReturnedFrom("generate_expansion_report")
    /\ "error" \notin DOMAIN ret.value

\* C5 as stated: a successful report for target_branches = k holds exactly k
\* location recommendations, for every k.
C5_AsStated ==
    FullReportReturned =>
        Len(ret.value.location_recommendations) = call.target_branches

\* The location entry of sample i when the categories are cycled over focus.
SampleEntry(i, focus) ==
    [coordinates |-> <<SampleCoords[i].latitude, SampleCoords[i].longitude>>,
     district |-> SampleCoords[i].district,
     category |-> focus[((i - 1) % Len(focus)) + 1]]

\* C6: a full report for target_branches = 3 and focus_categories = [A, B]
\* holds exactly 3 recommendations, for the three samples with categories A, B,
\* A in their configured order; in general sample i (from 0) is scored with
\* focus_categories[i mod len(focus_categories)].
C6_CategoriesCycle ==
    FullReportReturned =>
        LET focus == FocusOf(call.focus_categories)
            recs == ret.value.location_recommendations
            wanted == Min2(call.target_branches, Len(SampleCoords))
        IN  /\ \A i \in 1..Len(SampleCoords) :
                 frame.sample_locations[i].category = focus[((i - 1) % Len(focus)) + 1]
            /\ \A i \in 1..wanted :
                 \E p \in 1..Len(recs) : recs[p].location = SampleEntry(i, focus)
            /\ \A p \in 1..Len(recs) :
                 \E i \in 1..wanted : recs[p].location = SampleEntry(i, focus)
            /\ (call.target_branches = 3 /\ Len(focus) = 2) =>
                 /\ Len(recs) = 3
                 /\ { recs[p].location.category : p \in 1..3 } = Range(focus)
                 /\ \A p \in 1..3 :
                      (recs[p].location.category = focus[2])
                        <=> (recs[p].location.coordinates
                               = <<SampleCoords[2].latitude, SampleCoords[2].longitude>>)

\* C6 witness: the full report of target_branches = 3 with two focus categories.
C6_Witness ==
    /\ FullReportReturned
    /\ call.target_branches = 3
    /\ call.focus_categories.given
    /\ call.focus_categories.value = <<"Fresh Juices", "Coffee and Hot Beverages">>
    /\ Len(ret.value.location_recommendations) = 3

\* The level and the recommendation of the thresholds applied to a reported
\* score (units of 1e-3).
LevelOfReported(reported) ==
    IF reported >= 300 THEN "High"
    ELSE IF reported >= 200 THEN "Medium"
    ELSE IF reported >= 100 THEN "Low"
    ELSE "Very Low"

RecommendationOfReported(reported) ==
    IF reported >= 300 THEN "RECOMMENDED: Good potential location"
    ELSE IF reported >= 200 THEN "CONSIDER: Moderate potential, validate with research"
    ELSE IF reported >= 100 THEN "CAUTION: Low potential, consider alternatives"
    ELSE "NOT RECOMMENDED: Very low potential"

\* C7 as stated: in every result of score_new_location the level and the
\* recommendation are those of the thresholds 0.3 / 0.2 / 0.1 applied to the
\* score reported in the same result.
C7_AsStated ==
    ReturnedFrom("score_new_location") =>
        /\ ret.value.spatial_score.level
             = LevelOfReported(ret.value.spatial_score.score)
        /\ ret.value.recommendation
             = RecommendationOfReported(ret.value.spatial_score.score)

\* The landmark table has every distance the result dict reads.
LandmarksComplete ==
    Range(KeyFactorKeys) \subseteq { "dist_to_" \o n : n \in DOMAIN landmarks }

UnknownDistrict == call.district \notin Range(Column("districtName"))

UnknownCategory == call.category \notin Range(Column("Category"))

\* C8: a district or category that does not occur in its column of the
\* reference table is encoded as 0, and the scoring goes on to a normal
\* result: the unknown value raises no error.
C8_UnknownEncodedZero ==
    (pc = "returned" /\ call.op = "score_new_location") =>
        /\ (UnknownDistrict /\ "features" \in DOMAIN frame)
             => /\ frame.features["districtName"] = 0
                /\ frame.feature_vector[IndexOf(spatial_features, "districtName")] = 0
        /\ (UnknownCategory /\ "features" \in DOMAIN frame)
             => /\ frame.features["Category"] = 0
                /\ frame.feature_vector[IndexOf(spatial_features, "Category")] = 0
        /\ ((UnknownDistrict \/ UnknownCategory) /\ LandmarksComplete)
             => /\ ~ret.raised
                /\ ret.value.location.district = call.district
                /\ ret.value.location.category = call.category

\* C8 witness: a scoring with a district absent from a table of two districts
\* returned a result.
C8_Witness ==
    /\ ReturnedFrom("score_new_location")
    /\ UnknownDistrict
    /\ Cardinality(Range(Column("districtName"))) = 2
    /\ frame.features["districtName"] = 0

\* The code analyze_portfolio gives a value of a column when it encodes it.
PortfolioCode(column_name, value) ==
    CategoricalCodes(Column(column_name))[IndexOf(Column(column_name), value)]

\* C9 as stated: for every value present in the reference table, the code the
\* scoring-time encoder produces equals the code analyze_portfolio assigns to
\* the same value.
C9_AsStated ==
    ReturnedFrom("score_new_location") =>
        /\ ~UnknownDistrict
             => frame.features["districtName"]
                  = PortfolioCode("districtName", call.district)
        /\ ~UnknownCategory
             => frame.features["Category"] = PortfolioCode("Category", call.category)

\* C10: the competitor counts of a feature extraction do not decrease with the
\* radius: competitors_0.5km <= competitors_1.0km <= competitors_2.0km.
C10_CompetitorsMonotone ==
    (pc = "returned" /\ call.op = "score_new_location" /\ "features" \in DOMAIN frame) =>
        /\ frame.features["competitors_0.5km"] <= frame.features["competitors_1.0km"]
        /\ frame.features["competitors_1.0km"] <= frame.features["competitors_2.0km"]
        /\ frame.features["competitors_2.0km"] <= Len(reference_data)

\* C10 witness: an extraction whose three counts all differ.
C10_Witness ==
    /\ ReturnedFrom("score_new_location")
    /\ frame.features["competitors_0.5km"] < frame.features["competitors_1.0km"]
    /\ frame.features["competitors_1.0km"] < frame.features["competitors_2.0km"]

\* A scoring call has returned or raised after it built its feature vector.
ScoredVector ==
    pc = "returned" /\ call.op = "score_new_location" /\ "feature_vector" \in DOMAIN frame

\* C12: the feature vector given to the spatial scaler has one entry per name
\* of the declared feature list, in that list's order: entry i is the value the
\* features hold for name i (the extractor's, or the code of the district or
\* the category) when they hold that name, and 0 when they do not.
C12_FeatureVectorInDeclaredOrder ==
    ScoredVector =>
        /\ Len(frame.feature_vector) = Len(spatial_features)
        /\ \A i \in 1..Len(spatial_features) :
             frame.feature_vector[i]
               = IF spatial_features[i] \in DOMAIN frame.features
                 THEN frame.features[spatial_features[i]]
                 ELSE 0
        /\ frame.features["districtName"] = EncodeCategorical(call.district, "districtName")
        /\ frame.features["Category"] = EncodeCategorical(call.category, "Category")
        /\ \A f \in DOMAIN frame.features \ {"districtName", "Category"} :
             frame.features[f]
               = CalculateSpatialFeatures(call.latitude, call.longitude,
                                          call.category).features[f]

\* C12 witness: a scoring whose vector holds a landmark distance and a
\* competitor count the extractor produced, a non-zero district code, and 0
\* for the declared name foot_traffic, which the extractor never produces.
C12_Witness ==
    /\ ReturnedFrom("score_new_location")
    /\ "foot_traffic" \notin DOMAIN frame.features
    /\ frame.feature_vector[IndexOf(spatial_features, "foot_traffic")] = 0
    /\ frame.feature_vector[IndexOf(spatial_features, "dist_to_kemang")] > 0
    /\ frame.feature_vector[IndexOf(spatial_features, "competitors_1.0km")] = 2
    /\ frame.feature_vector[IndexOf(spatial_features, "districtName")] = 1

\* The places of the reference rows of a category, and of the rows a ranking
\* for that category is to read: the category's, or all when it has none.
CategoryRows(category) ==
    { i \in 1..Len(reference_data) : reference_data[i].Category = category }

RankedRows(category) ==
    IF CategoryRows(category) = {} THEN 1..Len(reference_data) ELSE CategoryRows(category)

RowsIn(rows, district) == { i \in rows : reference_data[i].districtName = district }

ScoreSum(rows) ==
    SumSeq([i \in 1..Len(reference_data) |->
              IF i \in rows THEN reference_data[i].performance_score ELSE 0])

\* mean score of rows a >= mean score of rows b (both non-empty).
MeanAtLeast(a, b) == ScoreSum(a) * Cardinality(b) >= ScoreSum(b) * Cardinality(a)

\* C13: find_optimal_districts(category, n) ranks the districts by their mean
\* performance score over the rows of the category when it has rows and over
\* all rows otherwise; it returns min(n, districts) distinct districts in
\* non-increasing order of that mean, none of the districts left out has a
\* larger mean, avg_performance is that mean rounded to 3 decimals, and
\* existing_branches is the number of rows of the category in the district
\* (0 in the fallback).
C13_OptimalDistricts ==
    ReturnedFrom("find_optimal_districts") =>
        LET rows == RankedRows(call.category)
            districts == { reference_data[i].districtName : i \in rows }
            out == ret.value
            chosen == { out[p].district : p \in 1..Len(out) }
        IN  /\ Len(out) = Min2(call.num_districts, Cardinality(districts))
            /\ Len(out) <= call.num_districts
            /\ chosen \subseteq districts
            /\ Cardinality(chosen) = Len(out)
            /\ \A p \in 1..Len(out), q \in 1..Len(out) :
                 p < q => MeanAtLeast(RowsIn(rows, out[p].district),
                                      RowsIn(rows, out[q].district))
            /\ \A p \in 1..Len(out), d \in districts \ chosen :
                 MeanAtLeast(RowsIn(rows, out[p].district), RowsIn(rows, d))
            /\ \A p \in 1..Len(out) :
                 /\ out[p].avg_performance
                      = RoundDiv(ScoreSum(RowsIn(rows, out[p].district)),
                                 10 * Cardinality(RowsIn(rows, out[p].district)))
                 /\ out[p].existing_branches
                      = Cardinality(RowsIn(CategoryRows(call.category), out[p].district))

\* C13 witness: a ranking over the rows of a category present in two districts
\* of different mean, beside a row of another category, returned both.
C13_Witness ==
    /\ ReturnedFrom("find_optimal_districts")
    /\ CategoryRows(call.category) # {}
    /\ CategoryRows(call.category) # 1..Len(reference_data)
    /\ Len(ret.value) = 2
    /\ ret.value[1].avg_performance > ret.value[2].avg_performance
    /\ ret.value[1].existing_branches >= 1

\* C15: every step of every public operation, in any sequence and whether the
\* operation returns or raises, leaves the loaded artifacts as they were: the
\* reference table, the landmarks, the two feature lists, the two scalers and
\* the two models.
C15_ArtifactsNeverMutated == [][artifacts' = artifacts]_vars

\* C15 witness: an analysis has returned a local table with the derived
\* columns while the rows of the reference table have none of them.
C15_Witness ==
    /\ ReturnedFrom("analyze_portfolio")
    /\ Len(frame.portfolio) = Len(reference_data)
    /\ \A i \in 1..Len(reference_data) :
         /\ {"predicted_score", "performance_gap", "status"} \subseteq DOMAIN frame.portfolio[i]
         /\ DOMAIN reference_data[i] \cap {"predicted_score", "performance_gap", "status"} = {}

\* A scoring call has returned or raised after its feature extraction.
Extracted ==
    pc = "returned" /\ call.op = "score_new_location" /\ "features" \in DOMAIN frame

\* No reference branch lies within the given metres of the point of the call.
NoBranchWithin(metres) ==
    \A i \in 1..Len(reference_data) :
        Geodesic(<<call.latitude, call.longitude>>,
                 <<reference_data[i].latitude, reference_data[i].longitude>>) > metres

\* C16: for a point at the coordinates of a landmark the extraction yields
\* dist_to_<that landmark> = 0, and competitors_0.5km = 0 if in addition no
\* reference branch lies within 0.5 km of the point.
C16_LandmarkPointDistanceZero ==
    Extracted =>
        \A n \in DOMAIN landmarks :
            landmarks[n] = <<call.latitude, call.longitude>> =>
                /\ frame.features["dist_to_" \o n] = 0
                /\ NoBranchWithin(500) => frame.features["competitors_0.5km"] = 0

\* C16 witness: a scoring at the coordinates of senayan, with branches in the
\* table but none within 0.5 km.
C16_Witness ==
    /\ ReturnedFrom("score_new_location")
    /\ landmarks["senayan"] = <<call.latitude, call.longitude>>
    /\ frame.features["dist_to_senayan"] = 0
    /\ NoBranchWithin(500)
    /\ frame.features["competitors_0.5km"] = 0
    /\ frame.features["competitors_2.0km"] >= 1

\* The reference rows at distance <= metres of the point of the call.
BranchesWithin(metres) ==
    { i \in 1..Len(reference_data) :
        Geodesic(<<call.latitude, call.longitude>>,
                 <<reference_data[i].latitude, reference_data[i].longitude>>) <= metres }

RevenueOf(rows) ==
    SumSeq([i \in 1..Len(reference_data) |->
              IF i \in rows THEN reference_data[i].GTV2024 ELSE 0])

\* C17: for each radius r of 0.5, 1.0 and 2.0 km the extraction sets
\* competitors_r to the number of reference branches at distance <= r,
\* same_category_competitors_r to the number of those of the requested
\* category (never more than competitors_r), competitor_revenue_r to the sum
\* of their revenue and competition_intensity_r to competitor_revenue_r over
\* competitors_r + 1 (the quotient in whole units of the model); with no
\* branch within r all four are 0.
C17_CompetitionFeatures ==
    Extracted =>
        \A r \in { <<"0.5", 500>>, <<"1.0", 1000>>, <<"2.0", 2000>> } :
            LET within == BranchesWithin(r[2])
                competitors == frame.features["competitors_" \o r[1] \o "km"]
                same == frame.features["same_category_competitors_" \o r[1] \o "km"]
                revenue == frame.features["competitor_revenue_" \o r[1] \o "km"]
                intensity == frame.features["competition_intensity_" \o r[1] \o "km"]
            IN  /\ competitors = Cardinality(within)
                /\ same = Cardinality({ i \in within :
                                          reference_data[i].Category = call.category })
                /\ same <= competitors
                /\ revenue = RevenueOf(within)
                /\ intensity * (competitors + 1) <= revenue
                /\ revenue < (intensity + 1) * (competitors + 1)
                /\ within = {} =>
                     competitors = 0 /\ same = 0 /\ revenue = 0 /\ intensity = 0

\* C17 witness: an extraction with no branch within 1 km (all four features
\* of that radius 0) and, within 2 km, branches of the requested category
\* beside branches of another.
C17_Witness ==
    /\ ReturnedFrom("score_new_location")
    /\ frame.features["competitors_1.0km"] = 0
    /\ frame.features["same_category_competitors_1.0km"] = 0
    /\ frame.features["competitor_revenue_1.0km"] = 0
    /\ frame.features["competition_intensity_1.0km"] = 0
    /\ frame.features["same_category_competitors_2.0km"] >= 1
    /\ frame.features["same_category_competitors_2.0km"]
         < frame.features["competitors_2.0km"]
    /\ frame.features["competition_intensity_2.0km"] > 0
    /\ frame.features["competition_intensity_2.0km"]
         < frame.features["competitor_revenue_2.0km"]

\* What a list of analyze_portfolio shows of row i of the local table.
ShownOf(i, key) ==
    [branchName |-> frame.portfolio[i].branchName,
     districtName |-> frame.portfolio[i].districtName]
    @@ (key :> frame.portfolio[i][key])

TimesListed(list, record) == Cardinality({ p \in 1..Len(list) : list[p] = record })

TimesInTable(record, key) ==
    Cardinality({ i \in 1..Len(frame.portfolio) : ShownOf(i, key) = record })

\* list holds min(5, n) branches of the table, no branch twice, ordered by key
\* (sign = 1: largest first; sign = -1: smallest first), and no branch left
\* out of it beats a branch in it.
IsExtremeFive(list, key, sign) ==
    /\ Len(list) = Min2(5, Len(frame.portfolio))
    /\ \A p \in 1..Len(list) :
         /\ TimesInTable(list[p], key) >= 1
         /\ TimesListed(list, list[p]) <= TimesInTable(list[p], key)
    /\ \A p \in 1..Len(list), q \in 1..Len(list) :
         p < q => sign * list[p][key] >= sign * list[q][key]
    /\ \A i \in 1..Len(frame.portfolio) :
         TimesListed(list, ShownOf(i, key)) < TimesInTable(ShownOf(i, key), key)
           => \A p \in 1..Len(list) :
                sign * list[p][key] >= sign * frame.portfolio[i][key]

\* C18: for a table of n branches analyze_portfolio returns top_performers as
\* the min(5, n) branches of highest performance score, highest first,
\* optimization_candidates as the min(5, n) branches of smallest gap (actual
\* minus predicted), smallest first, and best_practice_sources as the
\* min(5, n) branches of largest gap, largest first; no branch outside a list
\* beats a branch inside it on the list's key.
C18_TopAndBottomFive ==
    ReturnedFrom("analyze_portfolio") =>
        /\ Len(frame.portfolio) = Len(reference_data)
        /\ \A i \in 1..Len(frame.portfolio) :
             /\ frame.portfolio[i].performance_score = reference_data[i].performance_score
             /\ frame.portfolio[i].performance_gap
                  = reference_data[i].performance_score - frame.portfolio[i].predicted_score
        /\ IsExtremeFive(ret.value.top_performers, "performance_score", 1)
        /\ IsExtremeFive(ret.value.optimization_candidates, "performance_gap", -1)
        /\ IsExtremeFive(ret.value.best_practice_sources, "performance_gap", 1)

\* C18 witness: the analysis of a table of more than 5 branches returned three
\* lists of 5, each leaving out a different branch, with two branches of equal
\* score among the top performers.
C18_Witness ==
    /\ ReturnedFrom("analyze_portfolio")
    /\ Len(reference_data) > 5
    /\ Len(ret.value.top_performers) = 5
    /\ Len(ret.value.optimization_candidates) = 5
    /\ Len(ret.value.best_practice_sources) = 5
    /\ \E p \in 1..4 :
         ret.value.top_performers[p].performance_score
           = ret.value.top_performers[p + 1].performance_score
    /\ ret.value.optimization_candidates[1].performance_gap
         < ret.value.best_practice_sources[5].performance_gap
    /\ \E i \in 1..Len(frame.portfolio) :
         TimesListed(ret.value.top_performers, ShownOf(i, "performance_score")) = 0

\* The four rules in their fixed order, and whether each fires on the features
\* of the call: Kemang nearer than 2 km, Sudirman CBD nearer than 3 km, more
\* than 5 competitors within 1 km, 1 km intensity above 1e9 IDR.
RuleTexts ==
    <<"Close to trendy Kemang area", "Near main business district",
      "High market activity area", "Strong market demand indicated">>

RuleFires(text) ==
    \/ text = RuleTexts[1] /\ frame.features["dist_to_kemang"] < 2000
    \/ text = RuleTexts[2] /\ frame.features["dist_to_sudirman_cbd"] < 3000
    \/ text = RuleTexts[3] /\ frame.features["competitors_1.0km"] > 5
    \/ text = RuleTexts[4] /\ frame.features["competition_intensity_1.0km"] > 1000000

FiredInsights == SelectSeq(RuleTexts, RuleFires)

\* C19 as stated: the spatial insights of a result are exactly the insights
\* whose rule fires, in the fixed order and each once; the list holds nothing
\* that no rule produced.
C19_AsStated ==
    ReturnedFrom("score_new_location") => ret.value.spatial_insights = FiredInsights

\* C19 amended: when at least one rule fires the spatial insights are exactly
\* the insights whose rule fires, in the fixed order and each once; when no
\* rule fires the list is the single insight "Standard market conditions".
C19_InsightsOrDefault ==
    ReturnedFrom("score_new_location") =>
        ret.value.spatial_insights
          = IF FiredInsights # <<>> THEN FiredInsights
            ELSE <<"Standard market conditions">>

\* C19 witness: a result whose insights are those of the competitor rule and
\* the intensity rule, in that order, the two landmark rules not firing.
C19_Witness ==
    /\ ReturnedFrom("score_new_location")
    /\ frame.features["dist_to_kemang"] >= 2000
    /\ frame.features["dist_to_sudirman_cbd"] >= 3000
    /\ frame.features["competitors_1.0km"] > 5
    /\ ret.value.spatial_insights
         = <<"High market activity area", "Strong market demand indicated">>

\* C20 as stated: for every landmark table (an empty one and one lacking
\* kemang included) and every reference table, the feature extraction of a
\* scoring call returns a feature mapping and the call returns a score result
\* instead of raising.
C20_AsStated ==
    (pc = "returned" /\ call.op = "score_new_location") =>
        /\ "features" \in DOMAIN frame
        /\ ~ret.raised

\* The session holds None for the system: a load has failed.
LoadFailed == "ml_system" \in DOMAIN session_state /\ ~session_state["ml_system"].instance

PipelineOperations ==
    {"score_new_location", "analyze_portfolio", "compare_locations",
     "find_optimal_districts", "generate_expansion_report"}

\* C14: a construction in which the load of any artifact fails raises and the
\* session holds no instance, and an instance the session holds has every
\* artifact loaded; once a load has failed the run stops at the top of main
\* with no page rendered and no pipeline operation invoked, and the session
\* stays so in every later run.
C14_LoadFailureHalts ==
    /\ [](call.op = "RestaurantLocationML" =>
            /\ ret.raised <=> call.failing # 0
            /\ session_state["ml_system"].instance <=> call.failing = 0)
    /\ [](("ml_system" \in DOMAIN session_state /\ session_state["ml_system"].instance)
            => session_state["ml_system"].loaded = Range(ArtifactFiles))
    /\ [](LoadFailed =>
            /\ pc = "idle"
            /\ rendered = [page |-> "none", outcome |-> "stopped"]
            /\ call.op \notin PipelineOperations)
    /\ [][LoadFailed => LoadFailed']_vars

\* C14 witness: a session in which pages were rendered and results kept, then
\* refreshed, holds None after the reload failed at the reference table: the
\* run has stopped with no page.
C14_Witness ==
    /\ LoadFailed
    /\ call = NoCall
    /\ rendered.outcome = "stopped"
    /\ "location_result" \in DOMAIN session_state
    /\ "expansion_report" \in DOMAIN session_state

ComparisonRun ==
    /\ rendered.page = "Location Comparison"
    /\ call.op = "compare_locations"
    /\ ~ret.raised

\* The score compare_locations reported for an entered location.
ComputedScore(loc) ==
    (CHOOSE r \in Range(ret.value) : r.location = LocationEntry(loc)).spatial_score.score

\* The scores of the entered locations fall (weakly) in the order entered.
DescendingAsEntered ==
    \A i, j \in 1..Len(rendered.locations) :
       i < j => ComputedScore(rendered.locations[i]) >= ComputedScore(rendered.locations[j])

\* C21: on the Location Comparison page, after a comparison has been run, the
\* marker drawn for each entered location shows the score and the colour band
\* compare_locations computed for that same location, also when the scores of
\* the entered locations are not already in descending order.
C21_AsStated ==
    (ComparisonRun /\ ~DescendingAsEntered) =>
       /\ ~rendered.map.raised
       /\ \A i \in 1..Len(rendered.locations) :
            /\ rendered.map.value[i].score = ComputedScore(rendered.locations[i])
            /\ rendered.map.value[i].color = GetColor(ComputedScore(rendered.locations[i]))

\* generate_expansion_report was called with focus_categories = [] and is done.
EmptyFocusCall ==
    /\ pc = "returned"
    /\ call.op = "generate_expansion_report"
    /\ call.focus_categories = [given |-> TRUE, value |-> <<>>]

\* C22: generate_expansion_report called with an empty focus_categories list
\* returns, for every target_branches (0 included), the error-shaped report:
\* 'error' plus an executive_summary holding only target_new_branches and
\* status; it never raises and never returns a full report with location
\* recommendations.
C22_EmptyFocusErrorReport ==
    EmptyFocusCall =>
       /\ ~ret.raised
       /\ DOMAIN ret.value = {"error", "executive_summary"}
       /\ ret.value.executive_summary =
            [target_new_branches |-> call.target_branches,
             status |-> "Error occurred during report generation"]

\* C22 witness: the call asked for 0 branches on a system whose portfolio
\* analysis succeeds, and the error reported is the cycling's modulo by zero.
C22_Witness ==
    /\ EmptyFocusCall
    /\ call.target_branches = 0
    /\ ~AnalyzePortfolio.raised
    /\ ~ret.raised
    /\ ret.value.error = "ZeroDivisionError: integer modulo by zero"

\* The branch names a list of the analyze_portfolio result holds.
BranchesListed(list) == { list[p].branchName : p \in 1..Len(list) }

\* C23: in every analyze_portfolio result no branch appears in both
\* optimization_candidates and best_practice_sources, whatever the size of
\* the reference table.
C23_AsStated ==
    ReturnedFrom("analyze_portfolio") =>
       BranchesListed(ret.value.optimization_candidates)
         \cap BranchesListed(ret.value.best_practice_sources) = {}

====
